---- MODULE Spec2Model ----
(***************************************************************************)
(* Model of the document lifecycle pipeline (DocumentProcessor), the       *)
(* vector store (VectorStore) and the retrieval step of the chat exchange  *)
(* (chat_with_documents) of legal_ai_management.                           *)
(*                                                                         *)
(* Fault model of the pipeline: every pipeline step function may raise     *)
(* (consistency wait, download, extraction, chunking, embedding/indexing,  *)
(* chunk persistence); the worker process may be killed at any point       *)
(* (Crash); the status commits of the relational store (lines 45, 72, 80   *)
(* of document_processor.py) succeed.                                      *)
(***************************************************************************)
EXTENDS Integers, Sequences, FiniteSets, TLC

\* ---------------------------------------------------------------- bounds
NumDocs == 2
NumCompanies == 3
MaxChunks == 2
MaxRuns == 2
MaxWaitCeiling == 1
MaxEntries == 4
MaxIds == 2
MaxDistance == 12
NumSessions == 2
MaxPrior == 8

\* ------------------------------------------------------- program constants
\* the number 1 of "1 - distance" and of the forced score 1.0, in tenths
One == 10
\* k of the similarity search issued by the chat exchange
k_results == 5
\* cap of the fallback loop
max_total_chunks == 6
\* number of persisted messages the exchange reads back
history_limit == 10
\* number of messages of the history the prompt keeps
history_window == 5
\* status reads of one document
MaxReads == 2
\* requests served at the same time
NumProcs == 2
\* requests the connections take in total
MaxServed == 2

Docs == 1..NumDocs
Companies == 1..NumCompanies

\* the company owning document d (Document.company_id)
CompanyOf(d) == ((d - 1) % NumCompanies) + 1

Min(a, b) == IF a < b THEN a ELSE b

\* ------------------------------------------------- metadata scalar values
\* A metadata value as the index stores it: the scalar type and the value.
\* The string "7" and the number 7 are different values with the same v.
IntV(n) == [t |-> "int", v |-> n]
StrV(n) == [t |-> "str", v |-> n]
\* python str(x): the decimal string of a number, a string unchanged
Str(x) == [t |-> "str", v |-> x.v]

VARIABLES
  documents,        \* documents table: d -> [processed, summary, doc_metadata]
  document_chunks,  \* document_chunks table, in insertion order
  collection,       \* the vector index collection, in insertion order
  s3_visible,       \* object store: is the uploaded object of d visible
  pc,               \* position of the worker inside process_document
  cur,              \* document_id of the run in flight (0 when idle)
  max_wait_seconds, \* local of _download_from_s3
  polls,            \* loop index of the consistency wait
  chunks,           \* local: the fragments of the text, in text order
  chunk_ids,        \* local: ids returned by add_documents
  summary_local,    \* local: summary
  heads,            \* head_object calls issued by the wait in flight
  gets,             \* get_object calls issued by the run in flight
  gen,              \* d -> outcome of the generation call of the last run for d
  runs,             \* d -> number of process_document runs started for d
  outcome,          \* d -> how the last run for d ended
  fragments,        \* d -> number of fragments the text of d splits into
                    \*      (-1 until the object is first extracted)
  request,          \* chat: the ChatRequest being served
  chat_pc,          \* chat: position inside chat_with_documents
  search_results,   \* chat: the passage list
  aggregated,       \* chat: local of the fallback loop
  fb_pos,           \* chat: position of the fallback loop in specific_documents
  sim_empty,        \* chat: did similarity_search return no passage
  index_calls,      \* chat: the index queries similarity_search issued, and
                    \*       those of them that raised
  chat_sessions,    \* chat_sessions table: id -> [company_id, updated_at]
  chat_messages,    \* chat_messages table, in insertion order
  session,          \* chat: id of the session of the exchange (0: none)
  base_len,         \* chat: number of messages persisted when the request arrived
  effective_doc_ids,\* chat: local of chat_with_documents
  chat_history,     \* chat: local of chat_with_documents
  llm_history,      \* chat: the messages generate_rag_response puts in the prompt
  rag_outcome,      \* chat: outcome of the generation call of the exchange
  response,         \* chat: the answer of the exchange
  exchange_status,  \* chat: "none", or how the exchange ended
  companies,        \* companies table: id -> name, in insertion order
  resolved,         \* the last resolution of a company name by an endpoint
  status_response,  \* the last response of get_document_status
  status_log,       \* document_id -> the responses get_document_status returned
                    \*                for it, in the order of the reads
  listing,          \* the last call of get_document_chunks and what it returned
  missing_run,      \* process_document called for an id that has no row
  workers,          \* concurrent chat exchanges: p -> position and session state
  uploads,          \* concurrent uploads: p -> position and locals
  s3_objects,       \* object store: the uploads whose object was put
  job_queue         \* the jobs enqueued, in order, and whether a worker took them

pipeVars == <<documents, document_chunks, collection, s3_visible, pc, cur,
              max_wait_seconds, polls, chunks, chunk_ids, summary_local,
              heads, gets, gen, runs, outcome, fragments>>
chatVars == <<request, chat_pc, search_results, aggregated, fb_pos, sim_empty,
              index_calls>>
exchVars == <<chat_sessions, chat_messages, session, base_len, effective_doc_ids,
              chat_history, llm_history, rag_outcome, response, exchange_status>>
companyVars == <<companies, resolved>>
statusVars == <<status_response, status_log>>
uploadVars == <<uploads, s3_objects, job_queue>>
otherVars == <<companyVars, statusVars, listing, missing_run, workers, uploadVars>>
restVars == <<exchVars, otherVars>>
vars == <<pipeVars, chatVars, restVars>>

\* ------------------------------------------------------- document rows
NullMeta == [kind |-> "null", total_chunks |-> 0]
\* doc_metadata written by the success path
StatsMeta(n) == [kind |-> "stats", total_chunks |-> n]
\* doc_metadata written by the failure handler
ErrorMeta == [kind |-> "error", total_chunks |-> 0]
\* the keys of a doc_metadata map
MetaKeys(m) ==
  CASE m.kind = "null" -> {}
    [] m.kind = "stats" -> {"total_chunks", "total_characters", "processing_completed_at"}
    [] m.kind = "error" -> {"error", "failed_at"}

NULL == "NULL"
\* a Document row as upload_document_direct creates it
NewDocument == [processed |-> "pending", summary |-> NULL, doc_metadata |-> NullMeta]

\* ------------------------------------------------------- generation
GenOutcomes == {"text", "empty", "nokey", "exception"}
\* a generation helper that swallows its failures into an empty string
generate_text_silent(g) ==
  CASE g = "nokey" -> ""
    [] g = "exception" -> ""
    [] g = "empty" -> ""
    [] g = "text" -> "generated text"
\* LLMService._generate_text: never raises, failures become a sentinel string
generate_text(g) ==
  CASE g = "nokey" -> "Error generating response: Missing API key"
    [] g = "exception" -> "Error generating response: upstream error"
    [] g = "empty" -> ""
    [] g = "blank" -> "  "
    [] g = "text" -> "generated text"
\* LLMService.generate_response
generate_response(g) == generate_text(g)
\* DocumentProcessor._generate_summary
generate_summary(g) == generate_response(g)

\* ------------------------------------------------------- chunks and index
\* DocumentProcessor._create_chunks: the fragments of the text in text order,
\* a fragment being named by its position in the text
create_chunks(n) == [i \in 1..n |-> i - 1]

\* VectorStore.add_documents: one entry per chunk, fresh ids, metadata as given
NewIds(coll, chs) == [i \in 1..Len(chs) |-> Len(coll) + i]
add_documents(coll, chs, d, r) ==
  coll \o [i \in 1..Len(chs) |->
            [id |-> Len(coll) + i,
             document_id |-> IntV(d),
             company_id |-> IntV(CompanyOf(d)),
             pos |-> chs[i],
             run |-> r]]

\* rows for all chunks but the last one
ChunkRowsShort(chs, ids, d, r) ==
  [i \in 1..(Min(Len(chs), Len(ids)) - 1) |->
    [document_id |-> d,
     chunk_index |-> i - 1,
     embedding_id |-> ids[i],
     pos |-> chs[i],
     run |-> r]]
\* the DocumentChunk rows of _store_chunks_with_embeddings
ChunkRows(chs, ids, d, r) ==
  [i \in 1..Min(Len(chs), Len(ids)) |->
    [document_id |-> d,
     chunk_index |-> i - 1,
     embedding_id |-> ids[i],
     pos |-> chs[i],
     run |-> r]]

\* ------------------------------------------------------- initial state
PipeInit ==
  /\ documents = [d \in Docs |-> NewDocument]
  /\ document_chunks = <<>>
  /\ s3_visible = [d \in Docs |-> FALSE]
  /\ pc = "idle"
  /\ cur = 0
  /\ max_wait_seconds = 0
  /\ polls = 0
  /\ chunks = <<>>
  /\ chunk_ids = <<>>
  /\ summary_local = NULL
  /\ heads = 0
  /\ gets = 0
  /\ gen = [d \in Docs |-> "none"]
  /\ runs = [d \in Docs |-> 0]
  /\ outcome = [d \in Docs |-> "none"]
  /\ fragments = [d \in Docs |-> -1]

\* supplied: the request carries a specific_documents list (not None)
NoRequest ==
  [company_id |-> 0, specific_documents |-> <<>>, supplied |-> FALSE, q |-> 0,
   session_id |-> 0]
NoCalls == [issued |-> {}, raised |-> {}]

ChatIdle ==
  /\ request = NoRequest
  /\ chat_pc = "idle"
  /\ search_results = <<>>
  /\ aggregated = <<>>
  /\ fb_pos = 0
  /\ sim_empty = FALSE
  /\ index_calls = NoCalls

\* no exchange served yet, empty session and message tables
ExchangeIdle ==
  /\ chat_sessions = <<>>
  /\ chat_messages = <<>>
  /\ session = 0
  /\ base_len = 0
  /\ effective_doc_ids = <<>>
  /\ chat_history = <<>>
  /\ llm_history = <<>>
  /\ rag_outcome = "none"
  /\ response = NULL
  /\ exchange_status = "none"

NoResolution == [op |-> "none", name |-> "", company |-> 0]
NoResponse == [status_code |-> 0]
NoListing == [document_id |-> 0, mode |-> "none", chunks |-> <<>>]
NoMissingRun == [document_id |-> 0, stage |-> "none", error |-> NULL]
Procs == 1..NumProcs
IdleWorker ==
  [pc |-> "idle", session |-> 0, pending |-> <<>>, marked |-> {}, served |-> 0]
IdleUpload == [pc |-> "idle", name |-> "", allowed |-> FALSE, company |-> 0,
               document_id |-> 0, status_code |-> 0]
\* no company row, no name resolved, no status read
OtherIdle ==
  /\ companies = <<>>
  /\ resolved = NoResolution
  /\ status_response = NoResponse
  /\ status_log = [d \in 1..(NumDocs + 1) |-> <<>>]
  /\ listing = NoListing
  /\ missing_run = NoMissingRun
  /\ workers = [p \in Procs |-> IdleWorker]
  /\ uploads = [p \in Procs |-> IdleUpload]
  /\ s3_objects = {}
  /\ job_queue = <<>>

RestIdle ==
  /\ ExchangeIdle
  /\ OtherIdle

Init ==
  /\ PipeInit
  /\ ChatIdle
  /\ RestIdle
  /\ collection = <<>>

\* ------------------------------------------------------- process_document
RECURSIVE SumRuns(_)
SumRuns(d) == IF d = 0 THEN 0 ELSE runs[d] + SumRuns(d - 1)
TotalRuns == SumRuns(NumDocs)

ResetLocals ==
  /\ pc' = "idle"
  /\ cur' = 0
  /\ max_wait_seconds' = 0
  /\ polls' = 0
  /\ chunks' = <<>>
  /\ chunk_ids' = <<>>
  /\ summary_local' = NULL
  /\ heads' = 0
  /\ gets' = 0

Raise ==
  /\ pc' = "except"

\* the entry without the status commit
StartNoCommit(d) ==
  /\ documents' = documents

\* lines 39-45: load the row, set processed = "processing", commit
StartCommit(d) ==
  /\ documents' = [documents EXCEPT ![d].processed = "processing"]

\* entry of process_document up to the call of _download_from_s3
Start(d) ==
  /\ pc = "idle"
  /\ TotalRuns < MaxRuns
  /\ StartCommit(d)
  /\ pc' = "wait"
  /\ cur' = d
  /\ runs' = [runs EXCEPT ![d] = @ + 1]
  /\ \E w \in 0..MaxWaitCeiling : max_wait_seconds' = w
  /\ polls' = 0
  /\ heads' = 0
  /\ gets' = 0
  /\ gen' = [gen EXCEPT ![d] = "none"]
  /\ UNCHANGED <<document_chunks, collection, s3_visible, chunks, chunk_ids,
                 summary_local, outcome, fragments>>
  /\ UNCHANGED <<chatVars, restVars>>

\* one iteration of the polling loop: head_object, break or sleep
HeadPoll ==
  /\ pc = "wait"
  /\ polls < max_wait_seconds
  /\ heads' = heads + 1
  /\ IF s3_visible[cur]
       THEN /\ pc' = "get"
            /\ polls' = polls
       ELSE /\ pc' = "wait"
            /\ polls' = polls + 1
  /\ UNCHANGED <<documents, document_chunks, collection, s3_visible, cur,
                 max_wait_seconds, chunks, chunk_ids, summary_local, gets,
                 gen, runs, outcome, fragments>>
  /\ UNCHANGED <<chatVars, restVars>>

\* a loop that falls through to the download when the range is exhausted
WaitExhaustedFallsThrough ==
  /\ pc' = "get"
\* lines 101-104: the else branch of the for loop raises
WaitExhausted ==
  /\ Raise

\* the range of the for loop is exhausted without a break
WaitTimeout ==
  /\ pc = "wait"
  /\ polls >= max_wait_seconds
  /\ WaitExhausted
  /\ UNCHANGED <<documents, document_chunks, collection, s3_visible, cur,
                 max_wait_seconds, polls, chunks, chunk_ids, summary_local,
                 heads, gets, gen, runs, outcome, fragments>>
  /\ UNCHANGED <<chatVars, restVars>>

\* get_object after the head succeeded; _download_from_s3 is left either
\* way, and its locals with it
GetObject ==
  /\ pc = "get"
  /\ gets' = gets + 1
  /\ \E ok \in BOOLEAN : IF ok THEN pc' = "extract" ELSE Raise
  /\ max_wait_seconds' = 0
  /\ polls' = 0
  /\ heads' = 0
  /\ UNCHANGED <<documents, document_chunks, collection, s3_visible, cur,
                 chunks, chunk_ids, summary_local,
                 gen, runs, outcome, fragments>>
  /\ UNCHANGED <<chatVars, restVars>>

\* _extract_text: the text is fixed by the object, so every run of the same
\* document extracts the same text
ExtractText ==
  /\ pc = "extract"
  /\ \E ok \in BOOLEAN :
       IF ok THEN /\ pc' = "chunk"
                  /\ IF fragments[cur] = -1
                       THEN \E n \in 0..MaxChunks :
                              fragments' = [fragments EXCEPT ![cur] = n]
                       ELSE fragments' = fragments
             ELSE /\ Raise
                  /\ fragments' = fragments
  /\ UNCHANGED <<documents, document_chunks, collection, s3_visible, cur,
                 max_wait_seconds, polls, chunks, chunk_ids, summary_local,
                 heads, gets, gen, runs, outcome>>
  /\ UNCHANGED <<chatVars, restVars>>

\* _create_chunks
CreateChunks ==
  /\ pc = "chunk"
  /\ \E ok \in BOOLEAN :
       IF ok THEN /\ chunks' = create_chunks(fragments[cur])
                  /\ pc' = "index"
             ELSE /\ chunks' = chunks
                  /\ Raise
  /\ UNCHANGED <<documents, document_chunks, collection, s3_visible, cur,
                 max_wait_seconds, polls, chunk_ids, summary_local,
                 heads, gets, gen, runs, outcome, fragments>>
  /\ UNCHANGED <<chatVars, restVars>>

\* _store_chunks_with_embeddings, first half: vector_store.add_documents
IndexChunks ==
  /\ pc = "index"
  /\ \E ok \in BOOLEAN :
       IF ok THEN /\ collection' = add_documents(collection, chunks, cur, runs[cur])
                  /\ chunk_ids' = NewIds(collection, chunks)
                  /\ pc' = "persist"
             ELSE /\ collection' = collection
                  /\ chunk_ids' = chunk_ids
                  /\ Raise
  /\ UNCHANGED <<documents, document_chunks, s3_visible, cur,
                 max_wait_seconds, polls, chunks, summary_local,
                 heads, gets, gen, runs, outcome, fragments>>
  /\ UNCHANGED <<chatVars, restVars>>

\* rows left behind by a commit that is not rolled back as a whole
PersistPartial(rows) ==
  IF Len(rows) > 0 THEN <<rows[1]>> ELSE <<>>
\* the commit of line 185 raised: the transaction is rolled back, no row stays
PersistRolledBack(rows) == <<>>

\* _store_chunks_with_embeddings, second half: the chunk rows and their commit
PersistChunks ==
  /\ pc = "persist"
  /\ LET rows == ChunkRows(chunks, chunk_ids, cur, runs[cur])
     IN \E ok \in BOOLEAN :
       IF ok THEN /\ document_chunks' = document_chunks \o rows
                  /\ pc' = "summarize"
             ELSE /\ document_chunks' = document_chunks \o PersistRolledBack(rows)
                  /\ Raise
  /\ UNCHANGED <<documents, collection, s3_visible, cur,
                 max_wait_seconds, polls, chunks, chunk_ids, summary_local,
                 heads, gets, gen, runs, outcome, fragments>>
  /\ UNCHANGED <<chatVars, restVars>>

\* line 61: summary = await self._generate_summary(text_content)
Summarize ==
  /\ pc = "summarize"
  /\ \E g \in GenOutcomes :
       /\ gen' = [gen EXCEPT ![cur] = g]
       /\ summary_local' = generate_summary(g)
  /\ pc' = "finalize"
  /\ UNCHANGED <<documents, document_chunks, collection, s3_visible, cur,
                 max_wait_seconds, polls, chunks, chunk_ids,
                 heads, gets, runs, outcome, fragments>>
  /\ UNCHANGED <<chatVars, restVars>>

\* lines 64-74: status, summary and metadata in one commit, then return
Finalize ==
  /\ pc = "finalize"
  /\ documents' = [documents EXCEPT ![cur] =
                     [processed |-> "completed",
                      summary |-> summary_local,
                      doc_metadata |-> StatsMeta(Len(chunks))]]
  /\ outcome' = [outcome EXCEPT ![cur] = "success"]
  /\ ResetLocals
  /\ UNCHANGED <<document_chunks, collection, s3_visible, gen, runs, fragments>>
  /\ UNCHANGED <<chatVars, restVars>>

\* a handler that marks the failure and keeps the old metadata
FailedKeepMeta(row) == [row EXCEPT !.processed = "failed"]
\* lines 78-79: processed = "failed", doc_metadata = {error, failed_at}
FailedRow(row) == [row EXCEPT !.processed = "failed", !.doc_metadata = ErrorMeta]

\* lines 76-81: the except handler commits the failure and re-raises
Handler ==
  /\ pc = "except"
  /\ documents' = [documents EXCEPT ![cur] = FailedRow(@)]
  /\ outcome' = [outcome EXCEPT ![cur] = "raised"]
  /\ ResetLocals
  /\ UNCHANGED <<document_chunks, collection, s3_visible, gen, runs, fragments>>
  /\ UNCHANGED <<chatVars, restVars>>

\* the worker process is killed: locals are lost, committed state stays
Crash ==
  /\ pc # "idle"
  /\ outcome' = [outcome EXCEPT ![cur] = "crashed"]
  /\ ResetLocals
  /\ UNCHANGED <<documents, document_chunks, collection, s3_visible, gen, runs, fragments>>
  /\ UNCHANGED <<chatVars, restVars>>

\* the object store makes the uploaded object visible; only the run that polls
\* for the object reads this, so the upload is placed within that run
ObjectVisible(d) ==
  /\ cur = d
  /\ ~s3_visible[d]
  /\ s3_visible' = [s3_visible EXCEPT ![d] = TRUE]
  /\ UNCHANGED <<documents, document_chunks, collection, pc, cur,
                 max_wait_seconds, polls, chunks, chunk_ids, summary_local,
                 heads, gets, gen, runs, outcome, fragments>>
  /\ UNCHANGED <<chatVars, restVars>>

Next ==
  \/ \E d \in Docs : Start(d)
  \/ HeadPoll
  \/ WaitTimeout
  \/ GetObject
  \/ ExtractText
  \/ CreateChunks
  \/ IndexChunks
  \/ PersistChunks
  \/ Summarize
  \/ Finalize
  \/ Handler
  \/ Crash
  \/ \E d \in Docs : ObjectVisible(d)

Spec == Init /\ [][Next]_vars

\* ------------------------------------------------------- pipeline claims
InFlight(d) == pc # "idle" /\ cur = d
RowsOf(d, r) == SelectSeq(document_chunks, LAMBDA x : x.document_id = d /\ x.run = r)
RowsOfDoc(d) == SelectSeq(document_chunks, LAMBDA x : x.document_id = d)
EntriesOf(d, r) == SelectSeq(collection, LAMBDA e : e.document_id = IntV(d) /\ e.run = r)

AllowedStep(a, b) ==
  \/ a = b
  \/ <<a, b>> \in {<<"pending", "processing">>, <<"processing", "completed">>,
                   <<"processing", "failed">>, <<"failed", "processing">>}

\* C1: over any sequence of process_document runs, a document's status moves
\* only along pending->processing, processing->completed, processing->failed
\* and failed->processing; a completed document never moves back.
C1_StatusTransitions ==
  [][\A d \in Docs :
       AllowedStep(documents[d].processed, documents'[d].processed)]_vars

\* C2: the status "processing" is committed before the first object-store
\* call, extraction, chunking or index write of the run: at every point of a
\* run past its entry the persisted status is "processing", and a run killed
\* at any such point leaves "processing" behind, never "pending".
C2_ProcessingCommittedFirst ==
  /\ pc # "idle" => documents[cur].processed = "processing"
  /\ \A d \in Docs :
       (outcome[d] = "crashed" /\ ~InFlight(d)) => documents[d].processed = "processing"
  /\ \A d \in Docs :
       documents[d].processed = "pending" =>
         /\ runs[d] = 0
         /\ ~InFlight(d)
         /\ \A i \in 1..Len(collection) : collection[i].document_id # IntV(d)

\* a run was killed after it had written to the index
C2_Witness ==
  \E d \in Docs :
    /\ outcome[d] = "crashed"
    /\ pc = "idle"
    /\ Len(EntriesOf(d, runs[d])) > 0
    /\ documents[d].processed = "processing"

\* C3: a document is "completed" only when every chunk of the completing run
\* is in the vector index, a Chunk row is committed for each of them, and a
\* summary value is stored on the document.
C3_CompletedOnlyAfterAll ==
  \A d \in Docs :
    documents[d].processed = "completed" =>
      LET es == EntriesOf(d, runs[d])
          rs == RowsOf(d, runs[d])
      IN /\ fragments[d] >= 0
         /\ Len(es) = fragments[d]
         /\ \A i \in 1..Len(es) : es[i].pos = i - 1
         /\ Len(rs) = Len(es)
         /\ \A i \in 1..Len(rs) : rs[i].embedding_id = es[i].id /\ rs[i].pos = es[i].pos
         /\ documents[d].summary # NULL

\* a document with more than one chunk is completed
C3_Witness ==
  \E d \in Docs :
    /\ documents[d].processed = "completed"
    /\ fragments[d] >= 2
    /\ Len(RowsOf(d, runs[d])) = fragments[d]

C5_NeverVisible ==
  /\ (pc # "idle" /\ ~s3_visible[cur]) =>
       /\ gets = 0
       /\ heads <= max_wait_seconds
       /\ polls = heads
       /\ pc \in {"wait", "except"}
       /\ pc = "except" => heads = max_wait_seconds
  /\ \A d \in Docs :
       (~s3_visible[d] /\ ~InFlight(d) /\ runs[d] > 0) =>
         /\ outcome[d] \in {"raised", "crashed"}
         /\ outcome[d] = "raised" =>
              /\ documents[d].processed = "failed"
              /\ "error" \in MetaKeys(documents[d].doc_metadata)
         /\ \A i \in 1..Len(collection) : collection[i].document_id # IntV(d)

\* the wait of a document whose object never appeared has timed out
C5_Witness ==
  \E d \in Docs :
    /\ ~s3_visible[d]
    /\ pc = "idle"
    /\ outcome[d] = "raised"
    /\ documents[d].processed = "failed"

\* C6: chunk rows of a run exist only when the index holds the full chunk set
\* of that run, and a document that is "failed" has no chunk row created by
\* the failed run.
C6_NoChunksOfFailedRun ==
  /\ \A i \in 1..Len(document_chunks) :
       LET x == document_chunks[i]
           es == EntriesOf(x.document_id, x.run)
       IN /\ Len(es) = fragments[x.document_id]
          /\ \E j \in 1..Len(es) : es[j].id = x.embedding_id /\ es[j].pos = x.pos
  /\ \A d \in Docs :
       documents[d].processed = "failed" => Len(RowsOf(d, runs[d])) = 0

\* the chunk persistence raised after the index accepted the chunks
C6_Witness ==
  \E d \in Docs :
    /\ documents[d].processed = "failed"
    /\ pc = "idle"
    /\ Len(EntriesOf(d, runs[d])) = 2
    /\ Len(RowsOf(d, runs[d])) = 0

\* C7: for every "completed" document, after any sequence of runs, the
\* chunk_index values of its Chunk rows are exactly 0..n-1, in text order,
\* each value once.
C7_ChunkIndexContiguous ==
  \A d \in Docs :
    documents[d].processed = "completed" =>
      LET rs == RowsOfDoc(d)
      IN \A i \in 1..Len(rs) : rs[i].chunk_index = i - 1 /\ rs[i].pos = i - 1

HumanReadable(s) == s # NULL /\ s # ""

\* C8: a failure of the generation capability during summarization never
\* makes the run fail: the run goes on to "completed" and a human-readable
\* placeholder string is stored as the summary.
C8_SummaryFailureDegrades ==
  \A d \in Docs :
    gen[d] \in {"nokey", "exception"} =>
      /\ InFlight(d) => pc = "finalize" /\ HumanReadable(summary_local)
      /\ ~InFlight(d) =>
           /\ outcome[d] \in {"success", "crashed"}
           /\ outcome[d] = "success" =>
                /\ documents[d].processed = "completed"
                /\ HumanReadable(documents[d].summary)

\* a run whose generation call failed for a missing key is completed
C8_Witness ==
  \E d \in Docs :
    /\ gen[d] = "nokey"
    /\ outcome[d] = "success"
    /\ documents[d].processed = "completed"
    /\ documents[d].summary = "Error generating response: Missing API key"

\* ------------------------------------------------------- vector index reads
Queries == {0, 1}
\* the distance the index reports for entry e and query q, in tenths
Distance(e, q) == (e.id * 7 + q * 3) % (MaxDistance + 1)

\* build_where: the filter with ids encoded as numbers or as strings
Enc(n, use_string_types) == IF use_string_types THEN Str(IntV(n)) ELSE IntV(n)
\* the index evaluates the filter by exact match of type and value
MatchesWhere(e, company_id, document_ids, use_string_types) ==
  /\ e.company_id = Enc(company_id, use_string_types)
  /\ document_ids # <<>> =>
       \E i \in DOMAIN document_ids :
         e.document_id = Enc(document_ids[i], use_string_types)

\* entry e goes before entry f in the ranking of query q
Nearer(e, f, q) ==
  \/ Distance(e, q) < Distance(f, q)
  \/ Distance(e, q) = Distance(f, q) /\ e.id < f.id

RECURSIVE InsertRanked(_, _, _)
InsertRanked(e, ranked, q) ==
  IF ranked = <<>> THEN <<e>>
  ELSE IF Nearer(e, Head(ranked), q) THEN <<e>> \o ranked
  ELSE <<Head(ranked)>> \o InsertRanked(e, Tail(ranked), q)

RECURSIVE Ranked(_, _)
Ranked(entries, q) ==
  IF entries = <<>> THEN <<>>
  ELSE InsertRanked(Head(entries), Ranked(Tail(entries), q), q)

\* collection.query: the n_results nearest entries among those matching
Nearest(entries, n_results, q) ==
  SubSeq(Ranked(entries, q), 1, Min(n_results, Len(entries)))
QueryFiltered(coll, k, q, company_id, document_ids, use_string_types) ==
  Nearest(SelectSeq(coll, LAMBDA e :
            MatchesWhere(e, company_id, document_ids, use_string_types)), k, q)
QueryAny(coll, k, q) == Nearest(coll, k, q)

\* the item similarity_search builds from an index entry
Item(e, q) ==
  [id |-> e.id,
   metadata |-> [document_id |-> e.document_id, company_id |-> e.company_id],
   score |-> One - Distance(e, q)]

\* lines 120-127: the filters enforced again on stringified values
PostFilter(e, company_id, document_ids) ==
  /\ Str(e.company_id) = Str(IntV(company_id))
  /\ document_ids # <<>> =>
       Str(e.document_id) \in {Str(IntV(document_ids[i])) : i \in DOMAIN document_ids}

\* lines 104-128: merge the results, first occurrence of an id kept
RECURSIVE MergeResults(_, _, _, _, _)
MergeResults(entries, seen_ids, q, company_id, document_ids) ==
  IF entries = <<>> THEN <<>>
  ELSE LET e == Head(entries)
       IN IF e.id \in seen_ids
            THEN MergeResults(Tail(entries), seen_ids, q, company_id, document_ids)
            ELSE (IF PostFilter(e, company_id, document_ids) THEN <<Item(e, q)>> ELSE <<>>)
                 \o MergeResults(Tail(entries), seen_ids \cup {e.id}, q,
                                 company_id, document_ids)

\* which of the index queries of one similarity_search raise when issued
QueryModes == {"ok", "int_raises", "str_raises", "both_raise", "all_raise"}
Raises(mode) ==
  CASE mode = "ok" -> {}
    [] mode = "int_raises" -> {"int"}
    [] mode = "str_raises" -> {"str"}
    [] mode = "both_raise" -> {"int", "str"}
    [] mode = "all_raise" -> {"int", "str", "any"}

RECURSIVE Flatten(_)
Flatten(lists) == IF lists = <<>> THEN <<>> ELSE Head(lists) \o Flatten(Tail(lists))

\* the unfiltered query whenever the filtered ones found no entry
NothingFound(query_results) == Flatten(query_results) = <<>>
\* line 95: if not query_results
NoQuerySucceeded(query_results) == query_results = <<>>

\* VectorStore.similarity_search: raised tells that the exception of the
\* unfiltered query left the function
similarity_search(coll, q, k, company_id, document_ids, mode) ==
  LET res_int == QueryFiltered(coll, k, q, company_id, document_ids, FALSE)
      res_str == QueryFiltered(coll, k, q, company_id, document_ids, TRUE)
      filtered == (IF "int" \in Raises(mode) THEN <<>> ELSE <<res_int>>)
                  \o (IF "str" \in Raises(mode) THEN <<>> ELSE <<res_str>>)
      unfiltered == NoQuerySucceeded(filtered)
      propagates == unfiltered /\ "any" \in Raises(mode)
      query_results == IF unfiltered /\ ~propagates
                         THEN filtered \o <<QueryAny(coll, k, q)>>
                         ELSE filtered
      issued == {"int", "str"} \cup (IF unfiltered THEN {"any"} ELSE {})
  IN [raised |-> propagates,
      issued |-> issued,
      failed |-> issued \cap Raises(mode),
      results |-> IF propagates THEN <<>>
                  ELSE MergeResults(Flatten(query_results), {}, q,
                                    company_id, document_ids)]

\* which of the index reads of one get_document_chunks raise
GetModes == {"ok", "int_raises", "str_raises", "both_raise"}

\* VectorStore.get_document_chunks
get_document_chunks(coll, document_id, mode) ==
  LET by_int == IF mode \in {"int_raises", "both_raise"} THEN <<>>
                ELSE SelectSeq(coll, LAMBDA e : e.document_id = IntV(document_id))
      by_str == IF mode \in {"str_raises", "both_raise"} THEN <<>>
                ELSE SelectSeq(coll, LAMBDA e : e.document_id = Str(IntV(document_id)))
      results == IF by_int # <<>> THEN by_int ELSE by_str
  IN [i \in 1..Len(results) |->
       [id |-> results[i].id,
        metadata |-> [document_id |-> results[i].document_id,
                      company_id |-> results[i].company_id]]]

\* ------------------------------------------------------- chat_with_documents
IdLists == UNION {[1..n -> Docs] : n \in 0..MaxIds}

\* the whole list, whatever the limit
TakeAll(chunk_list, n) == chunk_list
\* islice(chunks, 0, n)
islice(chunk_list, n) == SubSeq(chunk_list, 1, Min(n, Len(chunk_list)))

\* lines 75-80: the passage appended for a chunk of the fallback
Forced(chunk) == [id |-> chunk.id, metadata |-> chunk.metadata, score |-> One]

\* a request of an existing company arrives: company and session resolved
\* (lines 30-55); the retrieval steps do not read the session
ChatRequest ==
  /\ chat_pc = "idle"
  /\ \E c \in Companies, ids \in IdLists, q \in Queries :
       request' = [company_id |-> c, specific_documents |-> ids,
                   supplied |-> (ids # <<>>), q |-> q, session_id |-> 0]
  /\ chat_pc' = "search"
  /\ UNCHANGED <<search_results, aggregated, fb_pos, sim_empty, index_calls>>
  /\ UNCHANGED <<pipeVars, restVars>>

\* lines 57-67: the similarity search and the decision to fall back
Search ==
  /\ chat_pc = "search"
  /\ \E mode \in QueryModes :
       LET r == similarity_search(collection, request.q, k_results,
                                  request.company_id, request.specific_documents, mode)
       IN /\ index_calls' = [issued |-> r.issued, raised |-> r.failed]
          /\ IF r.raised
            THEN /\ chat_pc' = "error"
                 /\ search_results' = <<>>
                 /\ sim_empty' = FALSE
            ELSE /\ search_results' = r.results
                 /\ sim_empty' = (r.results = <<>>)
                 /\ chat_pc' = IF r.results = <<>> /\ request.specific_documents # <<>>
                                 THEN "fallback" ELSE "respond"
  /\ aggregated' = <<>>
  /\ fb_pos' = 0
  /\ UNCHANGED request
  /\ UNCHANGED <<pipeVars, restVars>>

\* lines 71-82: one iteration of the fallback loop
FallbackStep ==
  /\ chat_pc = "fallback"
  /\ fb_pos < Len(request.specific_documents)
  /\ \E mode \in GetModes :
       LET doc_id == request.specific_documents[fb_pos + 1]
           chunk_list == get_document_chunks(collection, doc_id, mode)
           taken == islice(chunk_list, max_total_chunks - Len(aggregated))
           agg == aggregated \o [i \in 1..Len(taken) |-> Forced(taken[i])]
       IN /\ aggregated' = agg
          /\ fb_pos' = IF Len(agg) >= max_total_chunks
                         THEN Len(request.specific_documents)
                         ELSE fb_pos + 1
  /\ UNCHANGED <<request, chat_pc, search_results, sim_empty, index_calls>>
  /\ UNCHANGED <<pipeVars, restVars>>

\* line 83: search_results = aggregated
FallbackDone ==
  /\ chat_pc = "fallback"
  /\ fb_pos >= Len(request.specific_documents)
  /\ search_results' = aggregated
  /\ chat_pc' = "respond"
  /\ UNCHANGED <<request, aggregated, fb_pos, sim_empty, index_calls>>
  /\ UNCHANGED <<pipeVars, restVars>>

\* the exchange ends: the response is returned, or the error of the search
Respond ==
  /\ chat_pc \in {"respond", "error"}
  /\ request' = NoRequest
  /\ chat_pc' = "idle"
  /\ search_results' = <<>>
  /\ aggregated' = <<>>
  /\ fb_pos' = 0
  /\ sim_empty' = FALSE
  /\ index_calls' = NoCalls
  /\ UNCHANGED <<pipeVars, restVars>>

\* ------------------------------------------------------- stores behind the chat
\* What the index holds for a document when the chat is served: nothing, the
\* entries of a completed run (one chunk, or MaxEntries chunks), an entry of
\* an earlier write path that stored the ids as strings, or both kinds.
Profiles == {"none", "one", "many", "legacy", "mixed"}
ProfileChunks(p) ==
  CASE p \in {"none", "legacy"} -> 0
    [] p \in {"one", "mixed"} -> 1
    [] p = "many" -> MaxEntries
LegacyEntry(coll, d) ==
  [id |-> Len(coll) + 1,
   document_id |-> Str(IntV(d)),
   company_id |-> Str(IntV(CompanyOf(d))),
   pos |-> 0,
   run |-> 0]

RECURSIVE IndexAfter(_, _)
IndexAfter(prof, d) ==
  IF d = 0 THEN <<>>
  ELSE LET before == IndexAfter(prof, d - 1)
           written == add_documents(before, create_chunks(ProfileChunks(prof[d])), d, 1)
       IN IF prof[d] \in {"legacy", "mixed"}
            THEN written \o <<LegacyEntry(written, d)>>
            ELSE written

RECURSIVE RowsAfter(_, _)
RowsAfter(prof, d) ==
  IF d = 0 THEN <<>>
  ELSE LET before == IndexAfter(prof, d - 1)
           chs == create_chunks(ProfileChunks(prof[d]))
       IN RowsAfter(prof, d - 1) \o ChunkRows(chs, NewIds(before, chs), d, 1)

Processed(p) == p \in {"one", "many", "mixed"}

\* the stores after the documents of the profile were processed once
IndexedStores(prof) ==
  /\ collection = IndexAfter(prof, NumDocs)
  /\ document_chunks = RowsAfter(prof, NumDocs)
  /\ documents = [d \in Docs |->
       IF Processed(prof[d])
         THEN [processed |-> "completed",
               summary |-> generate_summary("text"),
               doc_metadata |-> StatsMeta(ProfileChunks(prof[d]))]
         ELSE NewDocument]
  /\ s3_visible = [d \in Docs |-> Processed(prof[d])]
  /\ runs = [d \in Docs |-> IF Processed(prof[d]) THEN 1 ELSE 0]
  /\ outcome = [d \in Docs |-> IF Processed(prof[d]) THEN "success" ELSE "none"]
  /\ gen = [d \in Docs |-> IF Processed(prof[d]) THEN "text" ELSE "none"]
  /\ fragments = [d \in Docs |-> IF Processed(prof[d]) THEN ProfileChunks(prof[d]) ELSE -1]
  /\ pc = "idle"
  /\ cur = 0
  /\ max_wait_seconds = 0
  /\ polls = 0
  /\ chunks = <<>>
  /\ chunk_ids = <<>>
  /\ summary_local = NULL
  /\ heads = 0
  /\ gets = 0

ChatInit ==
  /\ \E prof \in [Docs -> Profiles] : IndexedStores(prof)
  /\ ChatIdle
  /\ RestIdle

ChatNext ==
  \/ ChatRequest
  \/ Search
  \/ FallbackStep
  \/ FallbackDone
  \/ Respond

ChatSpec == ChatInit /\ [][ChatNext]_vars

\* ------------------------------------------------------- retrieval claims
NoDuplicateIds(passages) ==
  \A i, j \in 1..Len(passages) : passages[i].id = passages[j].id => i = j

\* C9: the passage list handed to the chat exchange never holds two passages
\* with the same chunk id, on the merged search path and on the fallback
\* path, for every document_ids list.
C9_NoDuplicatePassages ==
  chat_pc = "respond" => NoDuplicateIds(search_results)

\* the passages are grouped in the order of the requested ids: positions of
\* specific_documents can be assigned to the passages in non-decreasing order
Grouped(passages, ids) ==
  \E f \in [1..Len(passages) -> 1..Len(ids)] :
    /\ \A i \in 1..Len(passages) : passages[i].metadata.document_id.v = ids[f[i]]
    /\ \A i \in 1..(Len(passages) - 1) : f[i] <= f[i + 1]

\* C10: when the similarity search returned no passage and document_ids was
\* supplied, the passage list has at most 6 passages, all of them index
\* entries of the requested documents, grouped in the order the ids were
\* supplied, each with score exactly 1.0.
C10_FallbackPassages ==
  (chat_pc = "respond" /\ sim_empty /\ request.specific_documents # <<>>) =>
    /\ Len(search_results) <= max_total_chunks
    /\ \A i \in 1..Len(search_results) :
         /\ search_results[i].score = One
         /\ \E j \in 1..Len(collection) :
              /\ collection[j].id = search_results[i].id
              /\ collection[j].document_id = search_results[i].metadata.document_id
              /\ \E n \in 1..Len(request.specific_documents) :
                   collection[j].document_id.v = request.specific_documents[n]
    /\ Len(search_results) > 0 => Grouped(search_results, request.specific_documents)

\* the cap is reached in the middle of the second requested document
C10_Witness ==
  /\ chat_pc = "respond"
  /\ sim_empty
  /\ Len(request.specific_documents) = 2
  /\ request.specific_documents[1] # request.specific_documents[2]
  /\ Len(search_results) = max_total_chunks
  /\ search_results[1].metadata.document_id.v = request.specific_documents[1]
  /\ search_results[max_total_chunks].metadata.document_id.v = request.specific_documents[2]
  /\ Len(SelectSeq(collection, LAMBDA e : e.document_id.v = request.specific_documents[2]))
       > Len(SelectSeq(search_results,
                       LAMBDA x : x.metadata.document_id.v = request.specific_documents[2]))

\* some requested document has an entry in the index, in either encoding
RequestedIndexed ==
  \E i \in 1..Len(request.specific_documents), j \in 1..Len(collection) :
    collection[j].document_id.v = request.specific_documents[i]

\* C11: an exchange that supplies document_ids of which at least one document
\* has an index entry completes with a passage list that holds at least one
\* passage of a requested document, whatever the semantic search did.
C11_RequestedDocumentsContribute ==
  (chat_pc \in {"respond", "error"} /\ request.specific_documents # <<>> /\ RequestedIndexed) =>
    /\ chat_pc = "respond"
    /\ \E i \in 1..Len(search_results), n \in 1..Len(request.specific_documents) :
         search_results[i].metadata.document_id.v = request.specific_documents[n]

\* C15: when the numeric-filtered, the string-filtered and the unfiltered
\* query all fail, similarity_search returns an empty list instead of raising,
\* and an exchange that supplied document_ids goes on to the direct listing.
C15_TotalFailureIsEmpty ==
  "any" \in index_calls.raised =>
    /\ chat_pc # "error"
    /\ sim_empty
    /\ request.specific_documents # <<>> => chat_pc \in {"fallback", "respond"}

\* C19: every passage of the passage list has a score within [0, 1].
C19_ScoreInUnitInterval ==
  \A i \in 1..Len(search_results) :
    /\ 0 <= search_results[i].score
    /\ search_results[i].score <= One

\* the passage satisfies the filter of the request, compared as strings
SatisfiesFilter(passage) ==
  /\ Str(passage.metadata.company_id) = Str(IntV(request.company_id))
  /\ request.specific_documents # <<>> =>
       \E n \in 1..Len(request.specific_documents) :
         Str(passage.metadata.document_id) = Str(IntV(request.specific_documents[n]))

NonIncreasingScores(passages) ==
  \A i \in 1..(Len(passages) - 1) : passages[i].score >= passages[i + 1].score

\* C21: the list similarity_search returns for ranked results is ordered by
\* non-increasing score, also when it merges the results of the numeric and
\* of the string filtered query over entries of both encodings.
C21_RankedByScore ==
  (chat_pc = "respond" /\ ~sim_empty) => NonIncreasingScores(search_results)

\* C23: every passage handed to the exchange of company C carries the
\* company_id of C (in either encoding), on the search path and on the
\* fallback path, for every document_ids list.
C23_PassagesOfRequestingCompany ==
  chat_pc = "respond" =>
    \A i \in 1..Len(search_results) :
      Str(search_results[i].metadata.company_id) = Str(IntV(request.company_id))

\* ------------------------------------------------------- text helpers
StartsWith(text, prefix) ==
  Len(text) >= Len(prefix) /\ SubSeq(text, 1, Len(prefix)) = prefix

\* python str.replace: every occurrence, left to right
RECURSIVE Replace(_, _, _)
Replace(text, old, new) ==
  IF Len(text) < Len(old) THEN text
  ELSE IF SubSeq(text, 1, Len(old)) = old
         THEN new \o Replace(SubSeq(text, Len(old) + 1, Len(text)), old, new)
         ELSE SubSeq(text, 1, 1) \o Replace(SubSeq(text, 2, Len(text)), old, new)

\* python str.strip, the white space being blanks
RECURSIVE Strip(_)
Strip(text) ==
  IF text = "" THEN text
  ELSE IF SubSeq(text, 1, 1) = " " THEN Strip(SubSeq(text, 2, Len(text)))
  ELSE IF SubSeq(text, Len(text), Len(text)) = " "
         THEN Strip(SubSeq(text, 1, Len(text) - 1))
  ELSE text

\* ------------------------------------------------------- answer generation
RagOutcomes == GenOutcomes \cup {"blank"}

\* the result of the generation call handed on as it is
raw_result(result) == result
\* generate_rag_response, lines 77-83
normalize_result(result) ==
  IF result = "" \/ Strip(result) = ""
    THEN "I could not generate a response. Ensure documents exist for this company and the LLM API key is configured."
  ELSE IF StartsWith(result, "Error generating response:")
    THEN "I apologize, but I encountered an error while processing your request: "
         \o Replace(result, "Error generating response: ", "")
  ELSE result

\* the first n elements
FirstN(list, n) == SubSeq(list, 1, Min(n, Len(list)))
\* python list[-n:]
LastN(list, n) == SubSeq(list, Len(list) - Min(n, Len(list)) + 1, Len(list))

\* the history the prompt is built from: chat_history[-5:] (lines 42-49)
prompt_history(history) == LastN(history, history_window)

\* LLMService.generate_rag_response
generate_rag_response(g, history) ==
  [history |-> prompt_history(history),
   text |-> normalize_result(generate_text(g))]

\* ------------------------------------------------------- message history
\* the list as it is
NotReversed(list) == list
\* python reversed
Reversed(list) == [i \in 1..Len(list) |-> list[Len(list) + 1 - i]]

RECURSIVE InsertByTimestampDesc(_, _)
InsertByTimestampDesc(row, sorted) ==
  IF sorted = <<>> THEN <<row>>
  ELSE IF row.timestamp > Head(sorted).timestamp THEN <<row>> \o sorted
  ELSE <<Head(sorted)>> \o InsertByTimestampDesc(row, Tail(sorted))

RECURSIVE OrderByTimestampDesc(_)
OrderByTimestampDesc(rows) ==
  IF rows = <<>> THEN <<>>
  ELSE InsertByTimestampDesc(Head(rows), OrderByTimestampDesc(Tail(rows)))

\* lines 90-92: the query for the recent messages of the session
recent_messages(table, session_id) ==
  FirstN(OrderByTimestampDesc(SelectSeq(table, LAMBDA m : m.session_id = session_id)),
         history_limit)

\* lines 94-97
history_of(recent) ==
  LET chronological == Reversed(recent)
  IN [i \in 1..Len(chronological) |->
       [role |-> chronological[i].role, content |-> chronological[i].content]]

\* line 86
result_doc_ids(passages) ==
  [i \in 1..Len(passages) |-> passages[i].metadata.document_id]
\* the ids of the request as the JSON column stores them
SuppliedIds(ids) == [i \in 1..Len(ids) |-> IntV(ids[i])]
\* the ids of the passages, whatever the request named
derived_only(ids, passages) == result_doc_ids(passages)
\* line 87: request.specific_documents or result_doc_ids
effective_ids(ids, passages) ==
  IF ids # <<>> THEN SuppliedIds(ids) ELSE result_doc_ids(passages)

\* the text of a chat message of the model
QueryText(q) == "query " \o ToString(q)

\* ChatMessage(...) as db.add and the commit store it; the timestamp default is
\* later than every timestamp of the table
NewMessage(table, session_id, role, content, context) ==
  [id |-> Len(table) + 1,
   session_id |-> session_id,
   role |-> role,
   content |-> content,
   context_documents |-> context,
   timestamp |-> Len(table) + 1]

\* ------------------------------------------------------- the whole exchange
\* the session with that id, whatever its company
find_session_any_company(table, session_id, company_id) ==
  IF session_id \in 1..Len(table) THEN session_id ELSE 0
\* lines 41-44: the session with that id among the sessions of the company,
\* 0 when there is none
find_session(table, session_id, company_id) ==
  IF /\ session_id \in 1..Len(table)
     /\ table[session_id].company_id = company_id
  THEN session_id ELSE 0

\* ChatSession(...) as db.add and the commit of line 54 store it
NewSession(company_id, now) == [company_id |-> company_id, updated_at |-> now]

\* a chat request arrives (lines 30-55): the company is resolved (c = 0: no
\* company has that name), the session is looked up by id and company, or
\* created and committed when the request names none
ExchangeRequest ==
  /\ chat_pc = "idle"
  /\ exchange_status = "none"
  /\ \E c \in 0..NumCompanies, ids \in IdLists, sup \in BOOLEAN, q \in Queries,
        session_id \in 0..(NumSessions + 1) :
       /\ ids # <<>> => sup
       /\ request' = [company_id |-> c, specific_documents |-> ids,
                      supplied |-> sup, q |-> q, session_id |-> session_id]
       /\ IF c = 0
            THEN /\ exchange_status' = "not_found"
                 /\ UNCHANGED <<chat_sessions, session, chat_pc>>
            ELSE IF session_id = 0
            THEN /\ chat_sessions' =
                      Append(chat_sessions, NewSession(c, Len(chat_messages)))
                 /\ session' = Len(chat_sessions) + 1
                 /\ chat_pc' = "search"
                 /\ UNCHANGED exchange_status
            ELSE IF find_session(chat_sessions, session_id, c) # 0
            THEN /\ session' = find_session(chat_sessions, session_id, c)
                 /\ chat_pc' = "search"
                 /\ UNCHANGED <<chat_sessions, exchange_status>>
            ELSE /\ exchange_status' = "not_found"
                 /\ UNCHANGED <<chat_sessions, session, chat_pc>>
  /\ base_len' = Len(chat_messages)
  /\ UNCHANGED <<search_results, aggregated, fb_pos, sim_empty, index_calls>>
  /\ UNCHANGED <<chat_messages, effective_doc_ids, chat_history, llm_history,
                 rag_outcome, response>>
  /\ UNCHANGED <<pipeVars, otherVars>>

\* lines 85-97: the ids kept with the exchange and the recent history
History ==
  /\ chat_pc = "respond"
  /\ effective_doc_ids' = effective_ids(request.specific_documents, search_results)
  /\ chat_history' = history_of(recent_messages(chat_messages, session))
  /\ chat_pc' = "generate"
  /\ UNCHANGED <<request, search_results, aggregated, fb_pos, sim_empty, index_calls>>
  /\ UNCHANGED <<chat_sessions, chat_messages, session, base_len, llm_history,
                 rag_outcome, response, exchange_status>>
  /\ UNCHANGED <<pipeVars, otherVars>>

\* lines 99-104: the answer
Generate ==
  /\ chat_pc = "generate"
  /\ \E g \in RagOutcomes :
       LET r == generate_rag_response(g, chat_history)
       IN /\ rag_outcome' = g
          /\ llm_history' = r.history
          /\ response' = r.text
  /\ chat_pc' = "persist"
  /\ UNCHANGED <<request, search_results, aggregated, fb_pos, sim_empty, index_calls>>
  /\ UNCHANGED <<chat_sessions, chat_messages, session, base_len, effective_doc_ids,
                 chat_history, exchange_status>>
  /\ UNCHANGED <<pipeVars, otherVars>>

\* lines 106-142: both messages stored in one commit, the response returned
Persist ==
  /\ chat_pc = "persist"
  /\ LET user_message == NewMessage(chat_messages, session, "user",
                                    QueryText(request.q), effective_doc_ids)
         with_user == Append(chat_messages, user_message)
         assistant_message == NewMessage(with_user, session, "assistant",
                                         response, effective_doc_ids)
     IN /\ chat_messages' = Append(with_user, assistant_message)
        /\ chat_sessions' =
             [chat_sessions EXCEPT ![session].updated_at = assistant_message.timestamp]
  /\ exchange_status' = "ok"
  /\ chat_pc' = "idle"
  /\ UNCHANGED <<request, search_results, aggregated, fb_pos, sim_empty, index_calls>>
  /\ UNCHANGED <<session, base_len, effective_doc_ids, chat_history,
                 llm_history, rag_outcome, response>>
  /\ UNCHANGED <<pipeVars, otherVars>>

\* the exception of similarity_search ends the exchange (line 58)
SearchFailed ==
  /\ chat_pc = "error"
  /\ exchange_status' = "error"
  /\ chat_pc' = "idle"
  /\ UNCHANGED <<request, search_results, aggregated, fb_pos, sim_empty, index_calls>>
  /\ UNCHANGED <<chat_sessions, chat_messages, session, base_len, effective_doc_ids,
                 chat_history, llm_history, rag_outcome, response>>
  /\ UNCHANGED <<pipeVars, otherVars>>

\* ------------------------------------------------------- stores of earlier exchanges
\* the company of session s
SessionCompany(s) == ((s - 1) % NumCompanies) + 1
\* the session of the i-th earlier exchange: two of three in session 1, the
\* third in one of the other sessions
PriorSession(i) ==
  IF i % 3 = 0 THEN (((i \div 3) - 1) % (NumSessions - 1)) + 2 ELSE 1

\* the message table after p exchanges
RECURSIVE PriorMessages(_)
PriorMessages(p) ==
  IF p = 0 THEN <<>>
  ELSE LET before == PriorMessages(p - 1)
           with_user == Append(before,
             NewMessage(before, PriorSession(p), "user", "question " \o ToString(p), <<>>))
       IN Append(with_user,
             NewMessage(with_user, PriorSession(p), "assistant",
                        "answer " \o ToString(p), <<>>))

\* the timestamp of the last message of session s, 0 when it has none
LastMessageTime(table, s) ==
  LET mine == {i \in 1..Len(table) : table[i].session_id = s}
  IN IF mine = {} THEN 0
     ELSE table[CHOOSE i \in mine : \A j \in mine : j <= i].timestamp
\* the session table after p exchanges
PriorSessions(p) ==
  [s \in 1..NumSessions |->
    NewSession(SessionCompany(s), LastMessageTime(PriorMessages(p), s))]

\* one exchange served on the stores left by an even number of earlier
\* exchanges, up to MaxPrior: the first session then holds 0, 4, 6, 8 or 12
\* messages
ExchangeInit ==
  /\ IndexedStores([d \in Docs |-> "mixed"])
  /\ ChatIdle
  /\ \E p \in {n \in 0..MaxPrior : n % 2 = 0} :
       /\ chat_messages = PriorMessages(p)
       /\ chat_sessions = PriorSessions(p)
  /\ session = 0
  /\ base_len = 0
  /\ effective_doc_ids = <<>>
  /\ chat_history = <<>>
  /\ llm_history = <<>>
  /\ rag_outcome = "none"
  /\ response = NULL
  /\ exchange_status = "none"
  /\ OtherIdle

ExchangeNext ==
  \/ ExchangeRequest
  \/ Search
  \/ FallbackStep
  \/ FallbackDone
  \/ History
  \/ Generate
  \/ Persist
  \/ SearchFailed

ExchangeSpec == ExchangeInit /\ [][ExchangeNext]_vars

\* ------------------------------------------------------- exchange claims
\* the two messages the exchange persisted, when it persisted exactly two
StoredPair(context) ==
  /\ Len(chat_messages) = base_len + 2
  /\ chat_messages[base_len + 1].role = "user"
  /\ chat_messages[base_len + 2].role = "assistant"
  /\ \A i \in {base_len + 1, base_len + 2} :
       /\ chat_messages[i].session_id = session
       /\ chat_messages[i].context_documents = context

\* C12 as stated: a successful exchange persists one user and one assistant
\* message whose context_documents both equal the supplied document_ids when
\* the caller supplied a list, and the document ids of the returned passages
\* otherwise.
C12_ContextIsSuppliedOrDerived ==
  exchange_status = "ok" =>
    StoredPair(IF request.supplied
                 THEN SuppliedIds(request.specific_documents)
                 ELSE result_doc_ids(search_results))

\* C12 amended: the supplied list is used when it is not empty; with no list
\* or an empty one the ids are those of the returned passages.
C12_ContextIsNonEmptySuppliedOrDerived ==
  exchange_status = "ok" =>
    StoredPair(IF request.specific_documents # <<>>
                 THEN SuppliedIds(request.specific_documents)
                 ELSE result_doc_ids(search_results))

\* a restricted exchange whose passages do not name the same ids as the request
C12_Witness ==
  /\ exchange_status = "ok"
  /\ request.specific_documents # <<>>
  /\ search_results # <<>>
  /\ result_doc_ids(search_results) # SuppliedIds(request.specific_documents)
  /\ chat_messages[base_len + 1].context_documents = SuppliedIds(request.specific_documents)

\* the messages of the session of the exchange that were persisted before it
EarlierOfSession ==
  SelectSeq(SubSeq(chat_messages, 1, base_len), LAMBDA m : m.session_id = session)

GenerationFailed == rag_outcome \in {"nokey", "exception"}

\* C14: when the generation call fails, the exchange still persists its two
\* messages, and the answer returned and stored is a non-empty notice that
\* does not begin with the sentinel "Error generating response:".
C14_FailureBecomesNotice ==
  /\ (GenerationFailed /\ chat_pc = "persist") =>
       /\ response # ""
       /\ ~StartsWith(response, "Error generating response:")
       /\ StartsWith(response, "I apologize")
  /\ (GenerationFailed /\ exchange_status = "ok") =>
       /\ Len(chat_messages) = base_len + 2
       /\ chat_messages[base_len + 1].role = "user"
       /\ chat_messages[base_len + 2].role = "assistant"
       /\ chat_messages[base_len + 2].content = response
       /\ response # ""
       /\ ~StartsWith(response, "Error generating response:")

C14_Witness ==
  /\ exchange_status = "ok"
  /\ rag_outcome = "exception"
  /\ response = "I apologize, but I encountered an error while processing your request: upstream error"
  /\ chat_messages[Len(chat_messages)].content = response

\* the request being served names no company, or a session that does not exist
\* or belongs to another company
NamesNothing ==
  \/ request.company_id = 0
  \/ /\ request.session_id # 0
     /\ ~ /\ request.session_id \in 1..Len(chat_sessions)
          /\ chat_sessions[request.session_id].company_id = request.company_id

CompanyNames == {"acme", "Acme", " acme ", "ACME ", "beta", " Beta", "zeta"}

UpperCase == "ABCDEFGHIJKLMNOPQRSTUVWXYZ"
LowerCase == "abcdefghijklmnopqrstuvwxyz"
LowerChar(c) ==
  IF \E i \in 1..Len(UpperCase) : SubSeq(UpperCase, i, i) = c
    THEN LET i == CHOOSE k \in 1..Len(UpperCase) : SubSeq(UpperCase, k, k) = c
         IN SubSeq(LowerCase, i, i)
    ELSE c
\* func.lower
RECURSIVE Lower(_)
Lower(text) ==
  IF text = "" THEN text
  ELSE LowerChar(SubSeq(text, 1, 1)) \o Lower(SubSeq(text, 2, Len(text)))

\* normalized_name = (company_name or "").strip()
normalized_name(company_name) == Strip(company_name)

\* Query.first: the first of the rows listed, 0 when there is none
first(rows) ==
  IF rows = {} THEN 0 ELSE CHOOSE i \in rows : \A j \in rows : i <= j

\* filter(func.lower(Company.name) == func.lower(normalized_name)).first()
find_company(table, company_name) ==
  first({i \in 1..Len(table) :
           Lower(table[i]) = Lower(normalized_name(company_name))})
\* filter(Company.name == company_name).first()
find_company_exact(table, company_name) ==
  first({i \in 1..Len(table) : table[i] = company_name})

\* the state the resolution of a name leaves alone
ResolutionFrame ==
  /\ UNCHANGED <<statusVars, listing, missing_run, workers, uploadVars>>
  /\ UNCHANGED <<pipeVars, chatVars, exchVars>>

\* chat_with_documents, lines 30-38: 404 when there is no such company
chat_company ==
  /\ \E name \in CompanyNames :
       resolved' = [op |-> "chat", name |-> name,
                    company |-> find_company(companies, name)]
  /\ UNCHANGED companies
  /\ ResolutionFrame

\* get_chat_sessions, lines 185-192
sessions_company ==
  /\ \E name \in CompanyNames :
       resolved' = [op |-> "sessions", name |-> name,
                    company |-> find_company(companies, name)]
  /\ UNCHANGED companies
  /\ ResolutionFrame

\* upload_document_direct, lines 106-117: get or create
upload_company ==
  /\ \E name \in CompanyNames :
       LET found == find_company(companies, name)
       IN IF found # 0
            THEN /\ resolved' = [op |-> "upload", name |-> name, company |-> found]
                 /\ UNCHANGED companies
            ELSE /\ companies' = Append(companies, normalized_name(name))
                 /\ resolved' = [op |-> "upload", name |-> name,
                                 company |-> Len(companies) + 1]
  /\ ResolutionFrame

\* get_company_documents, lines 194-202
documents_company ==
  /\ \E name \in CompanyNames :
       resolved' = [op |-> "documents", name |-> name,
                    company |-> find_company_exact(companies, name)]
  /\ UNCHANGED companies
  /\ ResolutionFrame

CompanyNext ==
  \/ chat_company
  \/ sessions_company
  \/ upload_company
  \/ documents_company

CompanySpec == Init /\ [][CompanyNext]_vars

\* the company the endpoint op resolves the name to on the table (0: none)
ResolvedBy(op, table, name) ==
  IF op = "documents" THEN find_company_exact(table, name)
  ELSE find_company(table, name)

\* two spellings that differ only in letter case and surrounding blanks
SameCompanyName(a, b) == Lower(Strip(a)) = Lower(Strip(b))

\* C16: whenever an endpoint has resolved a name, every spelling of that name
\* that differs only in letter case or surrounding white space resolves to
\* the same company in the same endpoint.
C16_SpellingsResolveAlike ==
  resolved.op # "none" =>
    \A other \in CompanyNames :
      SameCompanyName(other, resolved.name) =>
        ResolvedBy(resolved.op, companies, other) = resolved.company

\* ------------------------------------------------------- document status
\* Document.filename and Document.created_at, fixed when the row is created
filename_of(d) == "file " \o ToString(d)
created_at_of(d) == d
\* Document.processed_at: written with processed = "completed"
\* (process_document, lines 64-65), null on a row never completed
processed_at_of(row) == IF row.processed = "completed" THEN "set" ELSE NULL

\* a response that also carries the number of reads served before it
document_status_served(d, row) ==
  [status_code |-> 200,
   id |-> d,
   filename |-> filename_of(d),
   processed |-> row.processed,
   created_at |-> created_at_of(d),
   processed_at |-> processed_at_of(row),
   summary |-> row.summary,
   metadata |-> row.doc_metadata,
   served |-> Len(status_log[d])]
\* get_document_status, lines 232-240
document_status(d, row) ==
  [status_code |-> 200,
   id |-> d,
   filename |-> filename_of(d),
   processed |-> row.processed,
   created_at |-> created_at_of(d),
   processed_at |-> processed_at_of(row),
   summary |-> row.summary,
   metadata |-> row.doc_metadata]

\* get_document_status, lines 228-240
get_document_status(table, document_id) ==
  IF document_id \in DOMAIN table
    THEN document_status(document_id, table[document_id])
    ELSE [status_code |-> 404, detail |-> "Document not found"]

\* one GET /documents/{document_id}/status
StatusRead ==
  /\ \E document_id \in 1..(NumDocs + 1) :
       /\ Len(status_log[document_id]) < MaxReads
       /\ LET r == get_document_status(documents, document_id)
          IN /\ status_response' = r
             /\ status_log' = [status_log EXCEPT ![document_id] = Append(@, r)]
  /\ UNCHANGED <<companyVars, listing, missing_run, workers, uploadVars>>
  /\ UNCHANGED <<pipeVars, chatVars, exchVars>>

\* status reads on the stores left by processing and by earlier exchanges
StatusInit ==
  /\ \E prof \in [Docs -> Profiles] : IndexedStores(prof)
  /\ ChatIdle
  /\ \E p \in {0, 1} :
       /\ chat_messages = PriorMessages(p)
       /\ chat_sessions = PriorSessions(p)
  /\ session = 0
  /\ base_len = 0
  /\ effective_doc_ids = <<>>
  /\ chat_history = <<>>
  /\ llm_history = <<>>
  /\ rag_outcome = "none"
  /\ response = NULL
  /\ exchange_status = "none"
  /\ OtherIdle

StatusNext == StatusRead

StatusSpec == StatusInit /\ [][StatusNext]_vars

\* the stores the claim names
Persistent == <<documents, document_chunks, chat_sessions, chat_messages, collection>>

ListChunks ==
  /\ \E document_id \in 1..(NumDocs + 1), mode \in GetModes :
       listing' = [document_id |-> document_id,
                   mode |-> mode,
                   chunks |-> get_document_chunks(collection, document_id, mode)]
  /\ UNCHANGED <<companyVars, statusVars, missing_run, workers, uploadVars>>
  /\ UNCHANGED <<pipeVars, chatVars, exchVars>>

ChunksNext == ListChunks

ChunksSpec == ChatInit /\ [][ChunksNext]_vars

\* the index entries of document d, its id stored as a number or as a string
EntriesOfDocument(d) == SelectSeq(collection, LAMBDA e : e.document_id.v = d)

\* C22: get_document_chunks(d) returns only index entries of d, none of them
\* twice, and, when no read fails, every index entry whose document_id is d
\* as a number or as a string.
C22_ListsBothEncodings ==
  listing.document_id # 0 =>
    LET d == listing.document_id
        entries == EntriesOfDocument(d)
    IN /\ NoDuplicateIds(listing.chunks)
       /\ \A i \in 1..Len(listing.chunks) :
            \E j \in 1..Len(entries) :
              /\ entries[j].id = listing.chunks[i].id
              /\ entries[j].document_id = listing.chunks[i].metadata.document_id
       /\ listing.mode = "ok" =>
            \A j \in 1..Len(entries) :
              \E i \in 1..Len(listing.chunks) : listing.chunks[i].id = entries[j].id

\* ------------------------------------------------------- run for a missing row
\* ids for which the documents table holds no row
MissingIds == (NumDocs + 1)..(NumDocs + 2)

\* line 41: the message of the ValueError
not_found_error(document_id) == "Document " \o ToString(document_id) \o " not found"

\* lines 76-81: doc is a local once line 39 has run, so the handler assigns
\* doc.processed; with doc = None the assignment raises AttributeError, which
\* leaves the handler in place of e
handler_error(doc_is_none, e) ==
  IF doc_is_none THEN "'NoneType' object has no attribute 'processed'" ELSE e

\* lines 36-41: the query finds no row and the ValueError is raised
MissingStart ==
  /\ missing_run.stage = "none"
  /\ \E document_id \in MissingIds :
       /\ document_id \notin DOMAIN documents
       /\ missing_run' = [document_id |-> document_id,
                          stage |-> "except",
                          error |-> not_found_error(document_id)]
  /\ UNCHANGED <<companyVars, statusVars, listing, workers, uploadVars>>
  /\ UNCHANGED <<pipeVars, chatVars, exchVars>>

\* lines 76-83: the handler, then the session is closed; nothing was committed
MissingHandler ==
  /\ missing_run.stage = "except"
  /\ missing_run' = [missing_run EXCEPT !.stage = "raised",
                                        !.error = handler_error(TRUE, @)]
  /\ UNCHANGED <<companyVars, statusVars, listing, workers, uploadVars>>
  /\ UNCHANGED <<pipeVars, chatVars, exchVars>>

MissingNext ==
  \/ MissingStart
  \/ MissingHandler

MissingSpec == ChatInit /\ [][MissingNext]_vars

\* C26: process_document for an id without a Document row fails with the
\* error "Document <id> not found", changes no document, chunk row or index
\* entry and issues no object-store call.
C26_MissingRowReported ==
  /\ [](missing_run.stage = "raised" =>
          missing_run.error = not_found_error(missing_run.document_id))
  /\ [][missing_run' # missing_run =>
          UNCHANGED <<documents, document_chunks, collection, heads, gets>>]_vars

\* ------------------------------------------------------- concurrent exchanges
\* Each request runs on its own database session (get_db, database.py 86-91):
\* rows added with db.add stay in that session until its commit, and a commit
\* stores all of them or, when it raises, none.
\* chat_sessions[id] once the row was deleted
NoSession == [company_id |-> 0, updated_at |-> 0]
\* the primary key the database gives the next row
NextId(table) ==
  IF table = <<>> THEN 1
  ELSE 1 + (CHOOSE n \in {table[i].id : i \in 1..Len(table)} :
              \A i \in 1..Len(table) : table[i].id <= n)

\* db.add followed by a commit of its own
add_and_commit(pending, message) ==
  [commit |-> Append(pending, message), pending |-> <<>>]
\* db.add (lines 113, 122): the row is pending in the session of the request,
\* nothing is sent to the database (autoflush=False, database.py 10)
add(pending, message) ==
  [commit |-> <<>>, pending |-> Append(pending, message)]

\* db.commit (line 126): the pending rows get their keys and timestamps
commit_rows(table, pending) ==
  table \o [i \in 1..Len(pending) |->
             [id |-> NextId(table) + i - 1,
              session_id |-> pending[i].session_id,
              role |-> pending[i].role,
              content |-> pending[i].content,
              context_documents |-> pending[i].context_documents,
              timestamp |-> NextId(table) + i - 1]]

\* the requests the first n connections have taken
RECURSIVE ServedBy(_)
ServedBy(n) == IF n = 0 THEN 0 ELSE workers[n].served + ServedBy(n - 1)

\* everything the concurrent requests leave alone
WorkerFrame ==
  /\ UNCHANGED <<session, base_len, effective_doc_ids, chat_history, llm_history,
                 rag_outcome, response, exchange_status>>
  /\ UNCHANGED <<companyVars, statusVars, listing, missing_run, uploadVars>>
  /\ UNCHANGED <<pipeVars, chatVars>>

\* the companies of the concurrent requests: the one of the first session and
\* another one
RequestCompanies == {SessionCompany(1), SessionCompany(2)}

\* lines 30-55 on connection p: company and session resolved, a new session
\* committed when the request names none
WorkerRequest(p) ==
  /\ workers[p].pc = "idle"
  /\ ServedBy(NumProcs) < MaxServed
  /\ \E c \in RequestCompanies, session_id \in 0..Len(chat_sessions) :
       IF session_id = 0
       THEN /\ chat_sessions' =
                 Append(chat_sessions, NewSession(c, NextId(chat_messages) - 1))
            /\ workers' = [workers EXCEPT ![p].pc = "search",
                                          ![p].session = Len(chat_sessions) + 1,
                                          ![p].served = @ + 1]
       ELSE IF find_session(chat_sessions, session_id, c) # 0
       THEN /\ workers' = [workers EXCEPT ![p].pc = "search",
                                          ![p].session = session_id,
                                          ![p].served = @ + 1]
            /\ UNCHANGED chat_sessions
       ELSE /\ workers' = [workers EXCEPT ![p].served = @ + 1]
            /\ UNCHANGED chat_sessions
  /\ UNCHANGED chat_messages
  /\ WorkerFrame

\* lines 57-104: retrieval and generation return, or the exception of one of
\* them ends the request
WorkerAnswer(p) ==
  /\ workers[p].pc = "search"
  /\ \E raised \in {"none", "retrieval", "generation"} :
       workers' = [workers EXCEPT ![p].pc = IF raised = "none" THEN "add_user" ELSE "idle",
                                  ![p].session = IF raised = "none" THEN @ ELSE 0]
  /\ UNCHANGED <<chat_sessions, chat_messages>>
  /\ WorkerFrame

\* lines 106-113
WorkerAddUser(p) ==
  /\ workers[p].pc = "add_user"
  /\ LET message == [session_id |-> workers[p].session, role |-> "user",
                     content |-> QueryText(p), context_documents |-> <<>>]
         after == add(workers[p].pending, message)
     IN /\ chat_messages' = commit_rows(chat_messages, after.commit)
        /\ workers' = [workers EXCEPT ![p].pc = "add_assistant",
                                      ![p].pending = after.pending]
  /\ UNCHANGED chat_sessions
  /\ WorkerFrame

\* lines 115-122
WorkerAddAssistant(p) ==
  /\ workers[p].pc = "add_assistant"
  /\ LET message == [session_id |-> workers[p].session, role |-> "assistant",
                     content |-> "answer", context_documents |-> <<>>]
         after == add(workers[p].pending, message)
     IN /\ chat_messages' = commit_rows(chat_messages, after.commit)
        /\ workers' = [workers EXCEPT ![p].pc = "commit",
                                      ![p].pending = after.pending]
  /\ UNCHANGED chat_sessions
  /\ WorkerFrame

\* lines 124-126: the session is touched and the commit stores the pending rows
\* and the touch together. The commit raises when the session row is gone (the
\* UPDATE matches no row) and may raise for a reason of the database; a commit
\* that raises stores nothing.
WorkerCommit(p) ==
  /\ workers[p].pc = "commit"
  /\ \E raised \in BOOLEAN :
       /\ chat_sessions[workers[p].session] = NoSession => raised
       /\ IF raised
          THEN UNCHANGED <<chat_sessions, chat_messages>>
          ELSE /\ chat_messages' = commit_rows(chat_messages, workers[p].pending)
               /\ chat_sessions' =
                    [chat_sessions EXCEPT ![workers[p].session].updated_at =
                       NextId(chat_messages) + Len(workers[p].pending) - 1]
  /\ workers' = [workers EXCEPT ![p].pc = "idle", ![p].session = 0,
                                ![p].pending = <<>>]
  /\ WorkerFrame

\* delete_session, lines 245-251: the session is read and the DELETE of its
\* messages is executed inside the transaction of the request
WorkerDeleteMessages(p) ==
  /\ workers[p].pc = "idle"
  /\ ServedBy(NumProcs) < MaxServed
  /\ \E session_id \in 1..Len(chat_sessions) :
       /\ chat_sessions[session_id] # NoSession
       /\ workers' =
            [workers EXCEPT ![p].pc = "delete",
                            ![p].session = session_id,
                            ![p].marked =
                              {chat_messages[i].id : i \in
                                 {j \in 1..Len(chat_messages) :
                                    chat_messages[j].session_id = session_id}},
                            ![p].served = @ + 1]
  /\ UNCHANGED <<chat_sessions, chat_messages>>
  /\ WorkerFrame

\* delete_session, lines 253-255: the session row is deleted and the
\* transaction committed. A database that enforces the foreign key of
\* chat_messages refuses the commit while a message committed since the DELETE
\* names the session; one that does not enforce it keeps that message.
WorkerDeleteCommit(p) ==
  /\ workers[p].pc = "delete"
  /\ \E raised \in BOOLEAN :
       /\ raised => \E i \in 1..Len(chat_messages) :
                      /\ chat_messages[i].session_id = workers[p].session
                      /\ chat_messages[i].id \notin workers[p].marked
       /\ IF raised \/ chat_sessions[workers[p].session] = NoSession
          THEN UNCHANGED <<chat_sessions, chat_messages>>
          ELSE /\ chat_messages' =
                    SelectSeq(chat_messages, LAMBDA m : m.id \notin workers[p].marked)
               /\ chat_sessions' = [chat_sessions EXCEPT ![workers[p].session] = NoSession]
  /\ workers' = [workers EXCEPT ![p].pc = "idle", ![p].session = 0,
                                ![p].marked = {}]
  /\ WorkerFrame

\* requests served concurrently on the stores left by earlier exchanges
ConcurrentInit ==
  /\ IndexedStores([d \in Docs |-> "mixed"])
  /\ ChatIdle
  /\ chat_messages = PriorMessages(3)
  /\ chat_sessions = PriorSessions(3)
  /\ session = 0
  /\ base_len = 0
  /\ effective_doc_ids = <<>>
  /\ chat_history = <<>>
  /\ llm_history = <<>>
  /\ rag_outcome = "none"
  /\ response = NULL
  /\ exchange_status = "none"
  /\ OtherIdle

ConcurrentNext ==
  \E p \in Procs :
    \/ WorkerRequest(p)
    \/ WorkerAnswer(p)
    \/ WorkerAddUser(p)
    \/ WorkerAddAssistant(p)
    \/ WorkerCommit(p)
    \/ WorkerDeleteMessages(p)
    \/ WorkerDeleteCommit(p)

ConcurrentSpec == ConcurrentInit /\ [][ConcurrentNext]_vars

\* the committed messages of session s with that role
MessagesOf(s, role) ==
  {i \in 1..Len(chat_messages) :
     chat_messages[i].session_id = s /\ chat_messages[i].role = role}

\* C24: in every committed state each chat session holds as many user messages
\* as assistant messages, whatever the interleaving of the concurrent requests:
\* the two messages of an exchange are committed together, and an exchange
\* whose retrieval or generation raised commits none.
C24_UserAndAssistantBalanced ==
  \A s \in 1..Len(chat_sessions) :
    Cardinality(MessagesOf(s, "user")) = Cardinality(MessagesOf(s, "assistant"))

\* one connection holds its pending pair for a session into which another
\* connection committed a pair meanwhile
C24_Witness ==
  \E p \in Procs, q \in Procs, s \in 1..Len(chat_sessions) :
    /\ p # q
    /\ workers[p].pc = "commit"
    /\ workers[p].session = s
    /\ Len(workers[p].pending) = 2
    /\ \E i \in MessagesOf(s, "user") : chat_messages[i].content = QueryText(q)

\* ------------------------------------------------------- upload_document_direct
\* the spellings the concurrent uploads send
UploadNames == {"acme", "Acme ", "company 1"}
\* the companies of the documents uploaded earlier
EarlierCompanies == [c \in Companies |-> "company " \o ToString(c)]

\* line 103: file.content_type in allowed_content_types
ContentTypes == {"application/pdf", "text/plain", "image/png"}
allowed_content_types ==
  {"application/pdf",
   "application/vnd.openxmlformats-officedocument.wordprocessingml.document",
   "text/plain"}

\* the primary key the database gives the next Document row
NextDocumentId(table) ==
  1 + (CHOOSE n \in DOMAIN table : \A d \in DOMAIN table : d <= n)
\* db.add(document) without the commit: no other connection sees the row
add_document(table, id, row) == table
\* lines 140-142: db.add(document), db.commit(), db.refresh(document)
insert_document(table, id, row) ==
  [d \in (DOMAIN table) \cup {id} |-> IF d = id THEN row ELSE table[d]]

\* q.enqueue(process_document_job, document.id), line 146
enqueue(queue, document_id) ==
  Append(queue, [document_id |-> document_id, state |-> "queued"])

\* everything an upload leaves alone
UploadFrame ==
  /\ UNCHANGED <<resolved, statusVars, listing, missing_run, workers>>
  /\ UNCHANGED <<document_chunks, collection, s3_visible, pc, cur,
                 max_wait_seconds, polls, chunks, chunk_ids, summary_local,
                 heads, gets, gen, runs, outcome, fragments>>
  /\ UNCHANGED <<chatVars, exchVars>>

\* the upload of connection p ends with that status code
UploadEnds(p, status_code) ==
  uploads' = [uploads EXCEPT ![p].pc = "done", ![p].status_code = status_code]

\* lines 97-104: the request arrives and its content type is checked
UploadRequest(p) ==
  /\ uploads[p].pc = "idle"
  /\ \E name \in UploadNames, content_type \in ContentTypes :
       uploads' = [uploads EXCEPT
         ![p].name = name,
         ![p].allowed = content_type \in allowed_content_types,
         ![p].pc = IF content_type \in allowed_content_types THEN "company" ELSE "done",
         ![p].status_code = IF content_type \in allowed_content_types THEN 0 ELSE 400]
  /\ UNCHANGED <<companies, documents, s3_objects, job_queue>>
  /\ UploadFrame

\* lines 106-112: the company is looked up by its trimmed, lower-cased name
UploadFindCompany(p) ==
  /\ uploads[p].pc = "company"
  /\ LET found == find_company(companies, uploads[p].name)
     IN uploads' = [uploads EXCEPT ![p].company = found,
                                   ![p].pc = IF found # 0 THEN "put" ELSE "create"]
  /\ UNCHANGED <<companies, documents, s3_objects, job_queue>>
  /\ UploadFrame

\* lines 113-117: no company was found, one is inserted under the trimmed name;
\* the unique index on Company.name refuses a name already stored, letter for
\* letter (database.py 17)
UploadCreateCompany(p) ==
  /\ uploads[p].pc = "create"
  /\ LET name == normalized_name(uploads[p].name)
     IN IF \E i \in 1..Len(companies) : companies[i] = name
        THEN /\ UploadEnds(p, 500)
             /\ UNCHANGED companies
        ELSE /\ companies' = Append(companies, name)
             /\ uploads' = [uploads EXCEPT ![p].company = Len(companies) + 1,
                                           ![p].pc = "put"]
  /\ UNCHANGED <<documents, s3_objects, job_queue>>
  /\ UploadFrame

\* lines 119-129: the object is put under a fresh key, or put_object raises
UploadPut(p) ==
  /\ uploads[p].pc = "put"
  /\ \E raised \in BOOLEAN :
       IF raised
       THEN /\ UploadEnds(p, 500)
            /\ UNCHANGED s3_objects
       ELSE /\ s3_objects' = s3_objects \cup {p}
            /\ uploads' = [uploads EXCEPT ![p].pc = "row"]
  /\ UNCHANGED <<companies, documents, job_queue>>
  /\ UploadFrame

\* lines 131-142: the Document row is committed with processed = "pending"
UploadInsertDocument(p) ==
  /\ uploads[p].pc = "row"
  /\ LET id == NextDocumentId(documents)
     IN /\ documents' = insert_document(documents, id, NewDocument)
        /\ uploads' = [uploads EXCEPT ![p].document_id = id, ![p].pc = "enqueue"]
  /\ UNCHANGED <<companies, s3_objects, job_queue>>
  /\ UploadFrame

\* lines 144-152: the job is enqueued and the response returned, or the queue
\* cannot be reached and enqueue raises
UploadEnqueue(p) ==
  /\ uploads[p].pc = "enqueue"
  /\ \E raised \in BOOLEAN :
       IF raised
       THEN /\ UploadEnds(p, 500)
            /\ UNCHANGED job_queue
       ELSE /\ job_queue' = enqueue(job_queue, uploads[p].document_id)
            /\ UploadEnds(p, 200)
  /\ UNCHANGED <<companies, documents, s3_objects>>
  /\ UploadFrame

\* process_document_job (jobs.py 20-27) started by a queue worker for job i:
\* process_document reads the row and commits "processing" (lines 39-45 of
\* document_processor.py), or finds no row
JobStart(i) ==
  /\ i \in 1..Len(job_queue)
  /\ job_queue[i].state = "queued"
  /\ LET id == job_queue[i].document_id
     IN IF id \in DOMAIN documents
        THEN /\ documents' = [documents EXCEPT ![id].processed = "processing"]
             /\ job_queue' = [job_queue EXCEPT ![i].state = "started"]
        ELSE /\ job_queue' = [job_queue EXCEPT ![i].state = "no row"]
             /\ UNCHANGED documents
  /\ UNCHANGED <<companies, s3_objects, uploads>>
  /\ UploadFrame

\* concurrent uploads into stores that hold earlier documents and their
\* companies
UploadInit ==
  /\ PipeInit
  /\ collection = <<>>
  /\ ChatIdle
  /\ ExchangeIdle
  /\ companies = EarlierCompanies
  /\ resolved = NoResolution
  /\ status_response = NoResponse
  /\ status_log = [d \in 1..(NumDocs + 1) |-> <<>>]
  /\ listing = NoListing
  /\ missing_run = NoMissingRun
  /\ workers = [p \in Procs |-> IdleWorker]
  /\ uploads = [p \in Procs |-> IdleUpload]
  /\ s3_objects = {}
  /\ job_queue = <<>>

UploadNext ==
  \/ \E p \in Procs :
       \/ UploadRequest(p)
       \/ UploadFindCompany(p)
       \/ UploadCreateCompany(p)
       \/ UploadPut(p)
       \/ UploadInsertDocument(p)
       \/ UploadEnqueue(p)
  \/ \E i \in 1..NumProcs : JobStart(i)

UploadSpec == UploadInit /\ [][UploadNext]_vars

\* the jobs enqueued for document id
JobsOf(id) == {i \in 1..Len(job_queue) : job_queue[i].document_id = id}

C28_OneCompanyPerNormalizedName ==
  \A i \in 1..Len(companies), j \in 1..Len(companies) :
    i # j => Lower(Strip(companies[i])) # Lower(Strip(companies[j]))

====
